---- MODULE Spec2Model ----
(***************************************************************************)
(* Model of the sales pipeline of src/data-transformation.py (class        *)
(* SalesDataProcessor) and of the revenue script src/data-analysis.py.     *)
(*                                                                         *)
(* A table is a sequence of rows; a row is a function from column name to  *)
(* value.  A cell of the raw table (as read by pd.read_csv) is a record    *)
(* [isna, val]: isna is TRUE for an empty CSV field (pandas NaN).  Cells of*)
(* the processed table are plain values, because clean_data fills every    *)
(* NaN.  Dates are <<year, month, day>> in the raw table (the CSV text) and*)
(* day ordinals counted from 2024-01-01 (a Monday) once parsed.  Unit      *)
(* prices are whole currency units, so arithmetic is exact.  Column order  *)
(* and the row index of a DataFrame are not modelled.  Grouped summaries   *)
(* are functions from group key to value (pandas emits them sorted by key).*)
(* pandas semantics are those of pandas 2.2 (the first release with the    *)
(* 'ME'/'QE' aliases; groupby on a categorical defaults to observed=False).*)
(***************************************************************************)
EXTENDS Integers, Sequences, FiniteSets, TLC

VARIABLES raw_data, processed_data, files, lastOp, raised

vars == <<raw_data, processed_data, files, lastOp, raised>>

(* Largest number of rows of the raw table. *)
MaxRows == 2

(* Outlier thresholds of clean_data. *)
MaxQuantity == 100
MaxUnitPrice == 1000

-----------------------------------------------------------------------------
(* Values *)

NaN == [isna |-> TRUE, val |-> 0]
Val(v) == [isna |-> FALSE, val |-> v]

(* self.processed_data = None, and a DataFrame with the given columns. *)
None == [isNone |-> TRUE, cols |-> {}, rows |-> <<>>]
DataFrame(cols, rows) == [isNone |-> FALSE, cols |-> cols, rows |-> rows]

RawColumns == {"date", "store_id", "product_id", "quantity", "unit_price", "customer_age"}
TimeColumns == {"day_of_week", "month", "quarter", "is_weekend"}
DerivedColumns == TimeColumns \cup {"age_group", "revenue"}

RECURSIVE SumSeq(_)
SumSeq(s) == IF s = <<>> THEN 0 ELSE Head(s) + SumSeq(Tail(s))

Range(s) == {s[i] : i \in 1..Len(s)}
Column(rows, c) == [i \in 1..Len(rows) |-> rows[i][c]]

SetMin(S) == CHOOSE x \in S : \A y \in S : x <= y
SetMax(S) == CHOOSE x \in S : \A y \in S : y <= x

(* df[c] = values: adds the column or overwrites it, row i getting       *)
(* values[i].                                                             *)
WithColumn(df, c, values) ==
    DataFrame(df.cols \cup {c},
              [i \in 1..Len(df.rows) |->
                  [k \in df.cols \cup {c} |-> IF k = c THEN values[i] ELSE df.rows[i][k]]])

-----------------------------------------------------------------------------
(* Calendar of 2024 *)

DaysInMonth == <<31, 29, 31, 30, 31, 30, 31, 31, 30, 31, 30, 31>>

DaysBefore(m) == SumSeq(SubSeq(DaysInMonth, 1, m - 1))

(* pd.to_datetime on a date of 2024: the day ordinal, 2024-01-01 being 0. *)
to_datetime(ymd) == DaysBefore(ymd[2]) + ymd[3] - 1

(* Series.dt.dayofweek: Monday is 0. *)
dayofweek(d) == d % 7
(* Series.dt.month *)
month(d) == CHOOSE m \in 1..12 : DaysBefore(m) <= d /\ d < DaysBefore(m) + DaysInMonth[m]
(* Series.dt.quarter *)
quarter(d) == ((month(d) - 1) \div 3) + 1

(* Bin labels of resample: 'W-Mon' bins are (Monday-7, Monday], 'ME' and  *)
(* 'QE' bins are calendar months and quarters; all are labelled by their  *)
(* last day.                                                               *)
WeekLabel(d) == d + ((7 - dayofweek(d)) % 7)
MonthEnd(d) == DaysBefore(month(d)) + DaysInMonth[month(d)] - 1
QuarterEnd(d) == DaysBefore(3 * quarter(d)) + DaysInMonth[3 * quarter(d)] - 1
BinLabel(rule, d) ==
    IF rule = "W-Mon" THEN WeekLabel(d)
    ELSE IF rule = "ME" THEN MonthEnd(d)
    ELSE QuarterEnd(d)

-----------------------------------------------------------------------------
(* clean_data *)

(* Variant: missing values filled with -1 instead of 0. *)
fillna_minus_one(cell) == IF cell.isna THEN -1 ELSE cell.val

(* df.fillna(0) on one cell. *)
fillna(cell) == IF cell.isna THEN 0 ELSE cell.val

(* df['date'] = pd.to_datetime(df['date']) followed by df.fillna(0). *)
parse_and_fill(r) ==
    [c \in DOMAIN r |-> IF c = "date" THEN to_datetime(r[c].val) ELSE fillna(r[c])]

(* Variant: the unit-price half of the mask left out. *)
not_outlier_quantity_only(r) == r["quantity"] <= MaxQuantity

(* The outlier mask (df['quantity'] <= 100) & (df['unit_price'] <= 1000). *)
not_outlier(r) == r["quantity"] <= MaxQuantity /\ r["unit_price"] <= MaxUnitPrice

(* Variant: clean_data filtering the current processed table, when there  *)
(* is one, instead of a copy of raw_data.                                 *)
cleaned_in_place(raw, previous) ==
    IF previous.isNone
    THEN DataFrame(RawColumns, SelectSeq([i \in 1..Len(raw) |-> parse_and_fill(raw[i])], not_outlier))
    ELSE DataFrame(previous.cols, SelectSeq(previous.rows, not_outlier))

(* The table clean_data stores: built from a copy of raw, whatever the   *)
(* previous processed table was.                                          *)
cleaned(raw, previous) ==
    DataFrame(RawColumns, SelectSeq([i \in 1..Len(raw) |-> parse_and_fill(raw[i])], not_outlier))

-----------------------------------------------------------------------------
(* create_time_features *)

time_features(df) ==
    LET n == Len(df.rows)
        a == WithColumn(df, "day_of_week", [i \in 1..n |-> dayofweek(df.rows[i]["date"])])
        b == WithColumn(a, "month", [i \in 1..n |-> month(a.rows[i]["date"])])
        c == WithColumn(b, "quarter", [i \in 1..n |-> quarter(b.rows[i]["date"])])
    IN  WithColumn(c, "is_weekend", [i \in 1..n |-> c.rows[i]["day_of_week"] \in {5, 6}])

-----------------------------------------------------------------------------
(* segment_customers *)

(* bins = [0, 18, 25, 35, 50, np.inf]; the last edge is unbounded. *)
bins == <<0, 18, 25, 35, 50>>
labels == <<"Under 18", "18-25", "26-35", "36-50", "Over 50">>
NoLabel == "NaN"

(* pd.cut(x, bins, labels) with its defaults right=True,                  *)
(* include_lowest=False: bin i is (bins[i], bins[i+1]]; a value in no bin *)
(* gets the missing category.                                              *)
InBin(x, i) == bins[i] < x /\ (i = Len(bins) \/ x <= bins[i + 1])
cut(x) == IF \E i \in 1..Len(bins) : InBin(x, i)
          THEN labels[CHOOSE i \in 1..Len(bins) : InBin(x, i)]
          ELSE NoLabel

segmented(df) ==
    WithColumn(df, "age_group", [i \in 1..Len(df.rows) |-> cut(df.rows[i]["customer_age"])])

-----------------------------------------------------------------------------
(* calculate_metrics *)

(* Variant: the factors added instead of multiplied. *)
revenue_added(r) == r["quantity"] + r["unit_price"]

(* df['revenue'] = df['quantity'] * df['unit_price'], for one row. *)
revenue(r) == r["quantity"] * r["unit_price"]

with_revenue(df) == WithColumn(df, "revenue", [i \in 1..Len(df.rows) |-> revenue(df.rows[i])])

(* ['revenue'].sum() of a group of rows. *)
revenue_sum(group) == SumSeq(Column(group, "revenue"))

(* Variant: running totals, each date summing the dates up to it. *)
daily_sales_running(rows) ==
    [d \in Range(Column(rows, "date")) |-> revenue_sum(SelectSeq(rows, LAMBDA r : r["date"] <= d))]

(* df.groupby('date')['revenue'].sum(): one total per distinct date. *)
daily_sales(rows) ==
    [d \in Range(Column(rows, "date")) |-> revenue_sum(SelectSeq(rows, LAMBDA r : r["date"] = d))]

(* df.resample(rule, on='date')[['revenue']].sum(): one total for every   *)
(* bin from the bin of the earliest date to the bin of the latest one,    *)
(* empty bins included with total 0.                                      *)
resample(rows, rule) ==
    IF rows = <<>> THEN <<>>
    ELSE LET dates == Range(Column(rows, "date"))
         IN  [b \in {BinLabel(rule, d) : d \in SetMin(dates)..SetMax(dates)} |->
                 revenue_sum(SelectSeq(rows, LAMBDA r : BinLabel(rule, r["date"]) = b))]

(* .reset_index().merge(df[['date', 'store_id']], on='date'): the inner   *)
(* join of the weekly totals (keyed by bin label) with the rows on the    *)
(* rows' own date, so a row pairs with a total only when its date is a    *)
(* bin label; each pair carries the whole bin's total.                    *)
merge_on_date(weekly, rows) ==
    LET matched == SelectSeq(rows, LAMBDA r : r["date"] \in DOMAIN weekly)
    IN  [i \in 1..Len(matched) |->
            [date |-> matched[i]["date"], store_id |-> matched[i]["store_id"],
             revenue |-> weekly[matched[i]["date"]]]]

(* The weekly_revenue table: .groupby(['store_id', 'date'])['revenue'].sum() *)
(* of the merged table.                                                      *)
weekly_revenue(rows) ==
    LET merged == merge_on_date(resample(rows, "W-Mon"), rows)
    IN  [k \in {<<m["store_id"], m["date"]>> : m \in Range(merged)} |->
            revenue_sum(SelectSeq(merged, LAMBDA m : m["store_id"] = k[1] /\ m["date"] = k[2]))]

(* Series.mean() of a group: NaN for a group without rows, else sum/count. *)
mean(values) == [isna |-> values = <<>>, sum |-> SumSeq(values), count |-> Len(values)]

(* df.groupby(['product_id', 'age_group'])['quantity'].mean(): age_group  *)
(* is categorical, so every product is paired with every label; rows      *)
(* whose age_group is missing belong to no group.                         *)
avg_quantity(rows) ==
    [k \in Range(Column(rows, "product_id")) \X Range(labels) |->
        mean(Column(SelectSeq(rows, LAMBDA r : r["product_id"] = k[1] /\ r["age_group"] = k[2]),
                    "quantity"))]

monthly_revenue(rows) == resample(rows, "ME")
quarterly_revenue(rows) == resample(rows, "QE")

(* Files written up to the groupby on 'age_group', and after it. *)
first_outputs(rows) ==
    ("daily_sales.csv" :> daily_sales(rows)) @@
    ("weekly_revenue_by_store.csv" :> weekly_revenue(rows))
last_outputs(rows) ==
    ("avg_quantity_by_product_and_age_group.csv" :> avg_quantity(rows)) @@
    ("monthly_revenue_trends.csv" :> monthly_revenue(rows)) @@
    ("quarterly_revenue_trends.csv" :> quarterly_revenue(rows))

(* groupby(['product_id', 'age_group']) raises KeyError when the table    *)
(* has no age_group column.                                               *)
metrics_error(df) == IF "age_group" \in df.cols THEN "none" ELSE "KeyError"

(* to_csv: the files in new replace or join those on disk. *)
Written(disk, new) ==
    [n \in DOMAIN disk \cup DOMAIN new |-> IF n \in DOMAIN new THEN new[n] ELSE disk[n]]

metrics_files(disk, df) ==
    IF metrics_error(df) = "none"
    THEN Written(disk, first_outputs(df.rows) @@ last_outputs(df.rows))
    ELSE Written(disk, first_outputs(df.rows))

-----------------------------------------------------------------------------
(* data-analysis.py *)

(* df['revenue'] = df['quantity'] * df['unit_price'] on the table as read: *)
(* NaN when either factor is NaN.                                          *)
analysis_revenue(r) ==
    IF r["quantity"].isna \/ r["unit_price"].isna THEN NaN
    ELSE Val(r["quantity"].val * r["unit_price"].val)

sales_data_with_revenue(raw) ==
    [i \in 1..Len(raw) |->
        [k \in RawColumns \cup {"revenue"} |->
            IF k = "revenue" THEN analysis_revenue(raw[i]) ELSE raw[i][k]]]

(* plt.hist(df['customer_age'], bins=20, ...) *)
HistBins == 20

(* The ages plt.hist counts: NaN values are left out. *)
hist_values(raw) ==
    LET present == SelectSeq(raw, LAMBDA r : ~r["customer_age"].isna)
    IN  [i \in 1..Len(present) |-> present[i]["customer_age"].val]

(* plt.hist takes its range from the non-NaN values; when the column holds *)
(* none, np.histogram finds the range [nan, nan] and raises ValueError,    *)
(* before anything is saved.                                               *)
analysis_error(raw) == IF hist_values(raw) = <<>> THEN "ValueError" ELSE "none"

(* Bin (1..HistBins) of value x in HistBins equal bins over [lo, hi], the  *)
(* last bin closed on the right; a range of one value is widened to        *)
(* [lo - 0.5, hi + 0.5], which puts the value on the left edge of the bin  *)
(* past the middle.                                                        *)
hist_bin(x, lo, hi) ==
    IF lo = hi THEN (HistBins \div 2) + 1
    ELSE IF x = hi THEN HistBins
    ELSE (((x - lo) * HistBins) \div (hi - lo)) + 1

(* customer_age_histogram.png: the data range and the count of each bin. *)
customer_age_histogram(raw) ==
    LET ages == hist_values(raw)
        lo == SetMin(Range(ages))
        hi == SetMax(Range(ages))
    IN  [lo |-> lo, hi |-> hi,
         counts |-> [b \in 1..HistBins |->
                        Cardinality({i \in 1..Len(ages) : hist_bin(ages[i], lo, hi) = b})]]

(* Files the script leaves: the histogram (plt.savefig) and then the table *)
(* with its revenue column (df.to_csv); none when plt.hist raises.         *)
analysis_files(disk, raw) ==
    IF analysis_error(raw) = "none"
    THEN Written(disk, ("customer_age_histogram.png" :> customer_age_histogram(raw)) @@
                       ("sales_data_with_revenue.csv" :> sales_data_with_revenue(raw)))
    ELSE disk

-----------------------------------------------------------------------------
(* Input tables *)

Row(ymd, store, product, qty, price, age) ==
    [date |-> Val(ymd), store_id |-> store, product_id |-> product,
     quantity |-> qty, unit_price |-> price, customer_age |-> age]

(* Rows of sales_data.csv: Mondays (01-01, 01-08, 04-01), other weekdays, *)
(* a weekend day, two stores and products, quantities and prices on both  *)
(* sides of the outlier thresholds, negative and missing values, and ages *)
(* on and next to every bin edge.                                         *)
SampleRows ==
    { Row(<<2024, 1, 1>>, Val(1), Val(1), Val(5),   Val(10),   Val(17)),
      Row(<<2024, 1, 1>>, Val(2), Val(1), Val(100), Val(1000), Val(18)),
      Row(<<2024, 1, 2>>, Val(1), Val(2), Val(5),   Val(10),   Val(25)),
      Row(<<2024, 1, 2>>, Val(2), Val(2), Val(101), Val(10),   Val(26)),
      Row(<<2024, 1, 6>>, Val(1), Val(1), Val(5),   Val(1001), Val(35)),
      Row(<<2024, 1, 7>>, Val(2), Val(1), Val(-1),  Val(10),   Val(36)),
      Row(<<2024, 1, 8>>, Val(1), Val(2), NaN,      Val(10),   Val(50)),
      Row(<<2024, 1, 8>>, Val(2), Val(1), Val(5),   NaN,       Val(51)),
      Row(<<2024, 2, 1>>, Val(1), Val(1), Val(3),   Val(7),    Val(0)),
      Row(<<2024, 4, 1>>, NaN,    NaN,    Val(2),   Val(10),   NaN) }

(* The CSV files read_csv can load: 1..MaxRows rows. *)
RECURSIVE Tables(_)
Tables(n) ==
    IF n = 0 THEN {<<>>}
    ELSE LET shorter == Tables(n - 1)
         IN  shorter \cup {Append(t, r) : t \in {s \in shorter : Len(s) = n - 1}, r \in SampleRows}

InputTables == {t \in Tables(MaxRows) : Len(t) >= 1}

-----------------------------------------------------------------------------
(* The processor *)

(* __init__: raw_data is the table read from the CSV file. *)
Init ==
    /\ raw_data \in InputTables
    /\ processed_data = None
    /\ files = <<>>
    /\ lastOp = "__init__"
    /\ raised = "none"

(* "if self.processed_data is None: self.clean_data()" *)
ensure_cleaned(raw, df) == IF df.isNone THEN cleaned(raw, df) ELSE df

clean_data ==
    /\ processed_data' = cleaned(raw_data, processed_data)
    /\ lastOp' = "clean_data"
    /\ raised' = "none"
    /\ UNCHANGED <<raw_data, files>>

create_time_features ==
    /\ processed_data' = time_features(ensure_cleaned(raw_data, processed_data))
    /\ lastOp' = "create_time_features"
    /\ raised' = "none"
    /\ UNCHANGED <<raw_data, files>>

segment_customers ==
    /\ processed_data' = segmented(ensure_cleaned(raw_data, processed_data))
    /\ lastOp' = "segment_customers"
    /\ raised' = "none"
    /\ UNCHANGED <<raw_data, files>>

(* The revenue column and the first two files are in place before the    *)
(* KeyError, if any, is raised.                                           *)
calculate_metrics ==
    LET df == with_revenue(ensure_cleaned(raw_data, processed_data))
    IN  /\ processed_data' = df
        /\ files' = metrics_files(files, df)
        /\ raised' = metrics_error(df)
        /\ lastOp' = "calculate_metrics"
        /\ UNCHANGED raw_data

(* Variant: an empty table treated like None ("if not data"). *)
get_error_if_empty(df) == IF df.isNone \/ df.rows = <<>> THEN "ValueError" ELSE "none"

(* Raises ValueError on None, else returns the table; changes nothing. *)
get_error(df) == IF df.isNone THEN "ValueError" ELSE "none"

get_processed_data ==
    /\ raised' = get_error(processed_data)
    /\ lastOp' = "get_processed_data"
    /\ UNCHANGED <<raw_data, processed_data, files>>

(* clean_data().create_time_features().segment_customers()                *)
(*     .calculate_metrics().get_processed_data()                          *)
process ==
    LET df == with_revenue(segmented(time_features(cleaned(raw_data, processed_data))))
    IN  /\ processed_data' = df
        /\ files' = metrics_files(files, df)
        /\ raised' = IF metrics_error(df) # "none" THEN metrics_error(df) ELSE get_error(df)
        /\ lastOp' = "process"
        /\ UNCHANGED raw_data

(* The script data-analysis.py, run on the same sales_data.csv. *)
data_analysis ==
    /\ files' = analysis_files(files, raw_data)
    /\ lastOp' = "data_analysis"
    /\ raised' = analysis_error(raw_data)
    /\ UNCHANGED <<raw_data, processed_data>>

Next ==
    \/ clean_data
    \/ create_time_features
    \/ segment_customers
    \/ calculate_metrics
    \/ get_processed_data
    \/ process
    \/ data_analysis

Spec == Init /\ [][Next]_vars

-----------------------------------------------------------------------------
(* Properties *)

PipelineOps ==
    {"clean_data", "create_time_features", "segment_customers", "calculate_metrics", "process"}
MetricsOps == {"calculate_metrics", "process"}

Rows == processed_data.rows
RowIds == 1..Len(processed_data.rows)

RECURSIVE SumFn(_)
SumFn(f) ==
    IF DOMAIN f = {} THEN 0
    ELSE LET k == CHOOSE x \in DOMAIN f : TRUE
         IN  f[k] + SumFn([x \in DOMAIN f \ {k} |-> f[x]])

(* C1: whenever processed_data is not None, every row of it has            *)
(* quantity <= 100 and unit_price <= 1000, whatever the raw table holds.   *)
C1_NoOutliers ==
    ~processed_data.isNone =>
        \A i \in RowIds : Rows[i]["quantity"] <= MaxQuantity /\ Rows[i]["unit_price"] <= MaxUnitPrice

(* A raw table with an outlier row and a kept row has been cleaned. *)
C1_Witness ==
    /\ ~processed_data.isNone
    /\ Len(Rows) = 1
    /\ \E j \in 1..Len(raw_data) :
          raw_data[j]["unit_price"].val > MaxUnitPrice \/ raw_data[j]["quantity"].val > MaxQuantity

(* C2: calculate_metrics called while processed_data is None cleans lazily *)
(* and completes without raising.                                          *)
C2_LazyMetricsCompletes ==
    [][(processed_data.isNone /\ lastOp' = "calculate_metrics") =>
          (~processed_data'.isNone /\ raised' = "none")]_vars

(* The partition the age groups are documented to follow:                  *)
(* [0,18), [18,25], [26,35], [36,50], (50,inf).                            *)
documented_age_group(age) ==
    IF age < 18 THEN "Under 18"
    ELSE IF age <= 25 THEN "18-25"
    ELSE IF age <= 35 THEN "26-35"
    ELSE IF age <= 50 THEN "36-50"
    ELSE "Over 50"

(* C3: segment_customers labels every row by the documented partition; in  *)
(* particular age 17 is 'Under 18' and age 18 is '18-25'.                  *)
C3_DocumentedAgeGroups ==
    "age_group" \in processed_data.cols =>
        \A i \in RowIds :
            Rows[i]["customer_age"] >= 0 =>
                Rows[i]["age_group"] = documented_age_group(Rows[i]["customer_age"])

(* C4: after segment_customers every row with a non-negative age (0       *)
(* included) has one of the five labels, never a missing value.            *)
C4_AgeGroupTotal ==
    "age_group" \in processed_data.cols =>
        \A i \in RowIds :
            Rows[i]["customer_age"] >= 0 => Rows[i]["age_group"] \in Range(labels)

(* First day (Monday) of the Monday-to-Sunday week of a date. *)
WeekStart(d) == d - dayofweek(d)

(* C5: the weekly summary holds, for each store and each week starting on  *)
(* Monday, the revenue of exactly the store's rows of that week, so its    *)
(* values add up to the revenue of the whole processed table.              *)
C5_WeeklyRevenueByStore ==
    lastOp \in MetricsOps =>
        LET weekly == files["weekly_revenue_by_store.csv"]
        IN  /\ DOMAIN weekly = {<<Rows[i]["store_id"], WeekStart(Rows[i]["date"])>> : i \in RowIds}
            /\ \A k \in DOMAIN weekly :
                  weekly[k] = SumSeq(Column(SelectSeq(Rows,
                                  LAMBDA r : r["store_id"] = k[1] /\ WeekStart(r["date"]) = k[2]), "revenue"))
            /\ SumFn(weekly) = SumSeq(Column(Rows, "revenue"))

(* C6: the daily summary has one total per distinct date, the revenue of   *)
(* the rows of that date, and the totals add up to the revenue of the      *)
(* whole processed table.                                                  *)
C6_DailyTotals ==
    lastOp \in MetricsOps =>
        LET daily == files["daily_sales.csv"]
        IN  /\ DOMAIN daily = {Rows[i]["date"] : i \in RowIds}
            /\ \A d \in DOMAIN daily :
                  daily[d] = SumSeq(Column(SelectSeq(Rows, LAMBDA r : r["date"] = d), "revenue"))
            /\ SumFn(daily) = SumSeq(Column(Rows, "revenue"))

(* calculate_metrics has summed two rows of one date. *)
C6_Witness ==
    /\ lastOp = "calculate_metrics"
    /\ Len(Rows) = 2
    /\ Rows[1]["date"] = Rows[2]["date"]
    /\ Rows[1]["revenue"] > 0 /\ Rows[2]["revenue"] > 0

(* C7: get_processed_data raises exactly when processed_data is None and   *)
(* changes nothing; processed_data is set by every pipeline operation and  *)
(* never returns to None, so from then on the call does not raise.         *)
C7_GetRaisesIffNone ==
    [][/\ lastOp' = "get_processed_data" =>
            /\ raised' = "ValueError" <=> processed_data.isNone
            /\ raised' \in {"none", "ValueError"}
            /\ UNCHANGED <<raw_data, processed_data, files>>
       /\ lastOp' \in PipelineOps => ~processed_data'.isNone
       /\ lastOp' = "process" => raised' = "none"
       /\ ~processed_data.isNone => ~processed_data'.isNone]_vars

(* get_processed_data has returned a table that cleaning left empty. *)
C7_Witness ==
    /\ lastOp = "get_processed_data"
    /\ raised = "none"
    /\ ~processed_data.isNone
    /\ Rows = <<>>

(* C8: after calculate_metrics every row has revenue = quantity *          *)
(* unit_price exactly, and its quantity and unit_price are unchanged.      *)
C8_RevenueIsProduct ==
    [][lastOp' = "calculate_metrics" =>
          /\ \A i \in 1..Len(processed_data'.rows) :
                LET r == processed_data'.rows[i]
                IN  r["revenue"] = r["quantity"] * r["unit_price"]
          /\ ~processed_data.isNone =>
                /\ Column(processed_data'.rows, "quantity") = Column(Rows, "quantity")
                /\ Column(processed_data'.rows, "unit_price") = Column(Rows, "unit_price")]_vars

(* The example of the claim: quantity 5 at unit price 10 gives revenue 50. *)
C8_Witness ==
    /\ lastOp = "calculate_metrics"
    /\ \E i \in RowIds :
          Rows[i]["quantity"] = 5 /\ Rows[i]["unit_price"] = 10 /\ Rows[i]["revenue"] = 50

(* C9 as stated: after clean_data every quantity is in 0..100, whatever    *)
(* the raw quantities (negative or missing ones included).                 *)
C9_QuantityInRange ==
    ~processed_data.isNone =>
        \A i \in RowIds : Rows[i]["quantity"] \in 0..MaxQuantity

(* C9 amended: after clean_data every quantity is at most 100, and a       *)
(* quantity below 0 is a negative quantity of the raw table, which         *)
(* clean_data keeps; a missing quantity becomes 0.                         *)
C9_QuantityAtMostMax ==
    ~processed_data.isNone =>
        \A i \in RowIds :
            /\ Rows[i]["quantity"] <= MaxQuantity
            /\ Rows[i]["quantity"] < 0 =>
                  \E j \in 1..Len(raw_data) :
                      /\ ~raw_data[j]["quantity"].isna
                      /\ raw_data[j]["quantity"].val = Rows[i]["quantity"]

(* A table with a missing quantity and a negative one has been cleaned. *)
C9_Witness ==
    /\ lastOp = "clean_data"
    /\ \E i \in RowIds : Rows[i]["quantity"] < 0
    /\ \E j \in 1..Len(raw_data) : raw_data[j]["quantity"].isna
    /\ \E i \in RowIds : Rows[i]["quantity"] = 0

(* C10: no operation changes raw_data; right after clean_data the         *)
(* processed table is the filtered raw rows with the raw columns only, so  *)
(* derived columns of earlier steps are gone, and a second clean_data in a *)
(* row changes nothing.                                                    *)
C10_CleanRebuildsFromRaw ==
    [][/\ raw_data' = raw_data
       /\ lastOp' = "clean_data" =>
            /\ processed_data'.cols = RawColumns
            /\ processed_data'.rows =
                  SelectSeq([j \in 1..Len(raw_data) |-> parse_and_fill(raw_data[j])], not_outlier)
            /\ \A i \in 1..Len(processed_data'.rows) :
                  DOMAIN processed_data'.rows[i] \cap DerivedColumns = {}
            /\ lastOp = "clean_data" => processed_data' = processed_data]_vars

(* clean_data has run after the derived columns were added and the        *)
(* summaries written.                                                      *)
C10_Witness ==
    /\ lastOp = "clean_data"
    /\ "avg_quantity_by_product_and_age_group.csv" \in DOMAIN files
    /\ processed_data.cols = RawColumns
    /\ Rows # <<>>

====
